---- MODULE Spec2Model ----
(***************************************************************************)
(* partsinstall: resolve an application name from a path, discover the     *)
(* parts of a split archive, combine them into one archive and hand it to  *)
(* 7z.  Strings are sequences of one-character strings; a path is a string *)
(* whose components are separated by "/".                                  *)
(***************************************************************************)
EXTENDS Integers, Sequences, FiniteSets, TLC

VARIABLES
    pc,             \* position of main(): "start", "glob", ..., "exit0", "exit1", "panic"
    name,           \* args.name
    no_interaction, \* args.no_interaction
    fs,             \* working directory: path -> [kind, bytes]
    dest,           \* state of args.destination and of destination/app_name
    app_name,       \* Option: result of find_app_name
    files,          \* Vec<PathBuf> collected from glob
    final_name,     \* Option: name handed to 7z
    out_created,    \* TRUE once File::create_new succeeded in this run
    idx,            \* number of parts the copy loop has finished
    opened,         \* parts File::open was called on, in call order
    combine_time,   \* Option: Some once combine_start.elapsed() was taken
    prompts,        \* questions put to the user, in order
    sevenzip,       \* Option: [arg, bytes] of the archive 7z was run on
    cls,            \* Option: [archive, numeric] answers of the classifier
    answers,        \* what the user typed at each question of prompts
    nexe,           \* executables.len() found in the destination
    choice,         \* Option: what prompt_user_for_usize returned
    err             \* Option: the io::Error that File::create_new, open or copy gave

vars == <<pc, name, no_interaction, fs, dest, app_name, files, final_name,
          out_created, idx, opened, combine_time, prompts, sevenzip, cls,
                   answers, nexe, choice, err>>

-----------------------------------------------------------------------------
(* Option<T> *)
None == <<>>
Some(x) == <<x>>
IsSome(o) == o # <<>>
Unwrap(o) == o[1]

-----------------------------------------------------------------------------
(* Characters, in ASCII order *)
Digits == <<"0","1","2","3","4","5","6","7","8","9">>
Upper == <<"A","B","C","D","E","F","G","H","I","J","K","L","M",
           "N","O","P","Q","R","S","T","U","V","W","X","Y","Z">>
Lower == <<"a","b","c","d","e","f","g","h","i","j","k","l","m",
           "n","o","p","q","r","s","t","u","v","w","x","y","z">>
Alphabet == <<"+", "-", ".", "/">> \o Digits \o Upper \o Lower

Ord(c) == CHOOSE i \in 1..Len(Alphabet) : Alphabet[i] = c

IsDigit(c) == \E i \in 1..Len(Digits) : Digits[i] = c
DigitVal(c) == (CHOOSE i \in 1..Len(Digits) : Digits[i] = c) - 1
IsUpper(c) == \E i \in 1..Len(Upper) : Upper[i] = c

\* char::to_lowercase on the ASCII range
LowerChar(c) == IF IsUpper(c) THEN Lower[CHOOSE i \in 1..Len(Upper) : Upper[i] = c] ELSE c
to_lowercase(s) == [i \in 1..Len(s) |-> LowerChar(s[i])]

\* byte-wise comparison of two strings: s < t
RECURSIVE StrLess(_, _)
StrLess(s, t) ==
    IF t = <<>> THEN FALSE
    ELSE IF s = <<>> THEN TRUE
    ELSE IF s[1] # t[1] THEN Ord(s[1]) < Ord(t[1])
    ELSE StrLess(Tail(s), Tail(t))

IsPrefix(p, s) == Len(p) <= Len(s) /\ SubSeq(s, 1, Len(p)) = p

\* positions of character c in s
Positions(s, c) == {i \in 1..Len(s) : s[i] = c}
MaxOf(S) == CHOOSE x \in S : \A y \in S : y <= x
MinOf(S) == CHOOSE x \in S : \A y \in S : x <= y

\* str::split(c): the segments between the separators, empty ones kept
RECURSIVE Split(_, _)
Split(s, c) ==
    IF Positions(s, c) = {} THEN <<s>>
    ELSE LET i == MinOf(Positions(s, c))
         IN <<SubSeq(s, 1, i - 1)>> \o Split(SubSeq(s, i + 1, Len(s)), c)

RECURSIVE Join(_, _)
Join(segs, c) ==
    IF segs = <<>> THEN <<>>
    ELSE IF Len(segs) = 1 THEN segs[1]
    ELSE segs[1] \o <<c>> \o Join(Tail(segs), c)

-----------------------------------------------------------------------------
(* std::path::Path *)

RECURSIVE NormalComponents(_)
NormalComponents(segs) ==
    IF segs = <<>> THEN <<>>
    ELSE IF segs[1] = <<>> \/ segs[1] = <<".">> THEN NormalComponents(Tail(segs))
    ELSE <<segs[1]>> \o NormalComponents(Tail(segs))

\* Path::file_name: the last component, unless there is none or it is ".."
file_name(path) ==
    LET comps == NormalComponents(Split(path, "/"))
    IN IF comps = <<>> THEN None
       ELSE IF comps[Len(comps)] = <<".", ".">> THEN None
       ELSE Some(comps[Len(comps)])

\* Path::parent, as the directory prefix that glob lists ("" for the working directory)
parent(path) ==
    IF Positions(path, "/") = {} THEN <<>>
    ELSE SubSeq(path, 1, MaxOf(Positions(path, "/")) - 1)

\* std's rsplit_file_at_dot: <<before, after>> around the last '.', both Options
rsplit_file_at_dot(file) ==
    IF file = <<".", ".">> THEN <<Some(file), None>>
    ELSE IF Positions(file, ".") = {} THEN <<None, Some(file)>>
    ELSE LET i == MaxOf(Positions(file, "."))
         IN IF i = 1 THEN <<Some(file), None>>
            ELSE <<Some(SubSeq(file, 1, i - 1)), Some(SubSeq(file, i + 1, Len(file)))>>

\* Path::file_stem: before.or(after)
file_stem(path) ==
    IF ~IsSome(file_name(path)) THEN None
    ELSE LET r == rsplit_file_at_dot(Unwrap(file_name(path)))
         IN IF IsSome(r[1]) THEN r[1] ELSE r[2]

\* Path::extension: before.and(after)
extension(path) ==
    IF ~IsSome(file_name(path)) THEN None
    ELSE LET r == rsplit_file_at_dot(Unwrap(file_name(path)))
         IN IF IsSome(r[1]) THEN r[2] ELSE None

-----------------------------------------------------------------------------
(* str::parse::<u32>.  A u32 is kept as two 16-bit limbs <<hi, lo>>, so    *)
(* that the overflow check at 2^32 is the one the code makes.               *)
Limb == 65536

U32Le(a, b) == a[1] < b[1] \/ (a[1] = b[1] /\ a[2] <= b[2])

\* acc.checked_mul(10).checked_add(d): None on overflow
MulAdd(acc, d) ==
    LET lo == acc[2] * 10 + d
        hi == acc[1] * 10 + (lo \div Limb)
    IN IF hi >= Limb THEN None ELSE Some(<<hi, lo % Limb>>)

RECURSIVE ParseDigits(_, _)
ParseDigits(s, acc) ==
    IF s = <<>> THEN Some(acc)
    ELSE IF ~IsDigit(s[1]) THEN None
    ELSE IF ~IsSome(MulAdd(acc, DigitVal(s[1]))) THEN None
    ELSE ParseDigits(Tail(s), Unwrap(MulAdd(acc, DigitVal(s[1]))))

\* an optional leading '+', then at least one digit, the value checked for overflow
parse_u32(s) ==
    IF s = <<>> THEN None
    ELSE IF s = <<"+">> \/ s = <<"-">> THEN None
    ELSE IF s[1] = "+" THEN ParseDigits(Tail(s), <<0, 0>>)
    ELSE ParseDigits(s, <<0, 0>>)

-----------------------------------------------------------------------------
(* lib.rs: the extension classifier and the name resolver *)

S_7z == <<"7", "z">>
S_zip == <<"z", "i", "p">>
S_rar == <<"r", "a", "r">>
S_tgz == <<"t", "g", "z">>
ARCHIVE_EXTS == {S_7z, S_zip, S_rar, S_tgz}

\* PathExt::is_archive: the extension, as written, is one of ARCHIVE_EXTS
is_archive(path) ==
    LET ext == extension(path)
    IN IsSome(ext) /\ Unwrap(ext) \in ARCHIVE_EXTS

\* mutant of is_numeric: any run of digits counts, however large
is_numeric_any_digits(path) ==
    LET ext == extension(path)
    IN /\ IsSome(ext)
       /\ Unwrap(ext) # <<>>
       /\ \A i \in 1..Len(Unwrap(ext)) : IsDigit(Unwrap(ext)[i])

\* PathExt::is_numeric: the extension parses as a u32
is_numeric(path) ==
    LET ext == extension(path)
    IN IsSome(ext) /\ IsSome(parse_u32(Unwrap(ext)))

lossy_file_name(path) == file_name(path)
lossy_file_stem(path) == file_stem(path)

\* Path::exists and Path::is_dir against the file system fsys
exists(fsys, path) == path \in DOMAIN fsys
is_dir(fsys, path) == path \in DOMAIN fsys /\ fsys[path].kind = "dir"

\* mutant of StripNumeric: a name without an extension gives None
StripNumeric_needs_extension(path) ==
    IF is_numeric(path) THEN lossy_file_stem(path)
    ELSE IF IsSome(extension(path)) THEN lossy_file_name(path) ELSE None

\* first strip: the numeric extension (app.7z.001 becomes app.7z)
StripNumeric(path) ==
    IF is_numeric(path) THEN lossy_file_stem(path) ELSE lossy_file_name(path)

\* mutant of StripArchive: the archive extension is left in place
StripArchive_kept(fname) == Some(fname)

\* second strip: the archive extension (app.7z becomes app)
StripArchive(fname) ==
    IF is_archive(fname) THEN lossy_file_stem(fname) ELSE Some(fname)

\* mutant of find_app_name: strips without looking at the file system
find_app_name_unchecked(fsys, path) ==
    LET stripped == StripNumeric(path)
    IN IF ~IsSome(stripped) THEN None ELSE StripArchive(Unwrap(stripped))

find_app_name(fsys, path) ==
    LET name_str == lossy_file_name(path)
    IN IF ~IsSome(name_str) THEN None
       ELSE IF ~exists(fsys, path) THEN name_str
       ELSE IF is_dir(fsys, path) THEN name_str
       ELSE LET stripped == StripNumeric(path)
            IN IF ~IsSome(stripped) THEN None
               ELSE StripArchive(Unwrap(stripped))

\* mutant of numeric_extension: a path without a number counts as 0
numeric_extension_or_zero(path) ==
    LET ext == extension(path)
    IN IF ~IsSome(ext) THEN Some(<<0, 0>>)
       ELSE LET segs == Split(Unwrap(ext), ".")
                hits == {i \in 1..Len(segs) : IsSome(parse_u32(segs[i]))}
            IN IF hits = {} THEN Some(<<0, 0>>) ELSE parse_u32(segs[MinOf(hits)])

\* the u32 that compare_numeric_extension reads off a path; None where it panics
numeric_extension(path) ==
    LET ext == extension(path)
    IN IF ~IsSome(ext) THEN None
       ELSE LET segs == Split(Unwrap(ext), ".")
                hits == {i \in 1..Len(segs) : IsSome(parse_u32(segs[i]))}
            IN IF hits = {} THEN None ELSE parse_u32(segs[MinOf(hits)])

\* compare_numeric_extension(a, b) is Less or Equal
compare_numeric_extension_le(a, b) ==
    U32Le(Unwrap(numeric_extension(a)), Unwrap(numeric_extension(b)))

\* slice::sort_by with compare_numeric_extension: a stable sort
RECURSIVE InsertStable(_, _)
InsertStable(sorted, x) ==
    IF sorted = <<>> THEN <<x>>
    ELSE IF compare_numeric_extension_le(sorted[1], x)
         THEN <<sorted[1]>> \o InsertStable(Tail(sorted), x)
         ELSE <<x>> \o sorted

RECURSIVE sort_by_numeric(_)
sort_by_numeric(fl) ==
    IF fl = <<>> THEN <<>>
    ELSE InsertStable(sort_by_numeric(SubSeq(fl, 1, Len(fl) - 1)), fl[Len(fl)])

\* the candidate count above which main() re-sorts the glob result
SortThreshold == 10

\* mutant of SortFilesResult: the glob order is kept whatever the length
SortFilesResult_glob_order(fl) == fl

SortFilesResult(fl) ==
    IF Len(fl) > SortThreshold THEN sort_by_numeric(fl) ELSE fl

\* glob: the entries of directory dir whose name starts with prefix, in
\* alphabetical order of their paths
RECURSIVE SortPaths(_)
SortPaths(S) ==
    IF S = {} THEN <<>>
    ELSE LET m == CHOOSE x \in S : \A y \in S \ {x} : StrLess(x, y)
         IN <<m>> \o SortPaths(S \ {m})

glob(fsys, dir, prefix) ==
    SortPaths({p \in DOMAIN fsys :
                 /\ parent(p) = dir
                 /\ IsSome(file_name(p))
                 /\ IsPrefix(prefix, Unwrap(file_name(p)))})

\* the files main() collects: inside app_name/ when args.name is a directory
GlobFilesResult(fsys, path, app) ==
    IF is_dir(fsys, path) THEN glob(fsys, app, app) ELSE glob(fsys, <<>>, app)

\* final_ext: the first segment after the first one that is not a u32
final_ext(fl) ==
    LET segs == Split(Unwrap(file_name(fl[1])), ".")
        hits == {i \in 2..Len(segs) : ~IsSome(parse_u32(segs[i]))}
    IN IF hits = {} THEN None ELSE Some(segs[MinOf(hits)])

OutputName(app, fl) ==
    IF IsSome(final_ext(fl)) THEN Some(app \o <<".">> \o Unwrap(final_ext(fl))) ELSE None

-----------------------------------------------------------------------------
(* The working directories the runs start from *)

MaxParts == 11      \* most parts of one split archive
PadWidth == 3       \* digits of a zero-padded part number

S_App == <<"A", "p", "p">>
S_MyApp == <<"M", "y", ".", "A", "p", "p">>
S_bin == <<"b", "i", "n">>
S_txt == <<"t", "x", "t">>

RECURSIVE Decimal(_)
Decimal(v) ==
    IF v < 10 THEN <<Digits[v + 1]>>
    ELSE Decimal(v \div 10) \o <<Digits[(v % 10) + 1]>>

RECURSIVE ZeroPad(_, _)
ZeroPad(s, w) == IF Len(s) >= w THEN s ELSE ZeroPad(<<"0">> \o s, w)

NumStr(v, style) == IF style = "padded" THEN ZeroPad(Decimal(v), PadWidth) ELSE Decimal(v)

\* a part's bytes: zero, one or two bytes that tell the parts apart
PartBytes(v) == [i \in 1..(v % 3) |-> 10 * v + i]
\* what an output file left by an earlier run holds
StaleBytes == <<7, 7>>
\* what the unrelated file holds
ExtraBytes == <<5>>

Scenarios ==
    [stem : {S_App, S_MyApp}, ext : {S_7z, S_bin}, style : {"padded", "plain"},
     n : 0..MaxParts, pre : BOOLEAN, indir : BOOLEAN, extra : BOOLEAN]

PartDir(sc) == IF sc.indir THEN sc.stem \o <<"/">> ELSE <<>>
PartPath(sc, v) == PartDir(sc) \o sc.stem \o <<".">> \o sc.ext \o <<".">> \o NumStr(v, sc.style)
OutPath(sc) == sc.stem \o <<".">> \o sc.ext
\* a file that shares the prefix and is no part of the archive
ExtraPath(sc) == PartDir(sc) \o sc.stem \o <<".">> \o S_txt

ScenarioPaths(sc) ==
    {PartPath(sc, v) : v \in 1..sc.n}
        \cup (IF sc.pre THEN {OutPath(sc)} ELSE {})
        \cup (IF sc.indir THEN {sc.stem} ELSE {})
        \cup (IF sc.extra THEN {ExtraPath(sc)} ELSE {})

ScenarioFs(sc) ==
    [p \in ScenarioPaths(sc) |->
        IF sc.indir /\ p = sc.stem THEN [kind |-> "dir", bytes |-> <<>>]
        ELSE IF sc.pre /\ p = OutPath(sc) THEN [kind |-> "file", bytes |-> StaleBytes]
        ELSE IF sc.extra /\ p = ExtraPath(sc) THEN [kind |-> "file", bytes |-> ExtraBytes]
        ELSE [kind |-> "file",
              bytes |-> PartBytes(CHOOSE v \in 1..sc.n : PartPath(sc, v) = p)]]

\* what the user may pass as args.name
ScenarioNames(sc) == {sc.stem, OutPath(sc), PartPath(sc, 1)}

Bytes(fsys, path) == fsys[path].bytes

-----------------------------------------------------------------------------
(* main() *)

Idle ==
    /\ app_name = None /\ files = <<>> /\ final_name = None /\ out_created = FALSE
    /\ idx = 0 /\ opened = <<>> /\ combine_time = None /\ prompts = <<>>
    /\ sevenzip = None /\ dest = "untouched" /\ cls = None
    /\ answers = <<>> /\ nexe = 0 /\ choice = None /\ err = None

Init ==
    /\ pc = "start"
    /\ \E sc \in Scenarios :
          /\ fs = ScenarioFs(sc)
          /\ name \in ScenarioNames(sc)
    /\ no_interaction \in BOOLEAN
    /\ Idle

\* what the user types at a (y/n) prompt, already trimmed
Answers == {<<"y">>, <<"Y">>, <<"n">>, <<>>}
Accepts(answer) == to_lowercase(answer) = <<"y">>

\* assert!(args.destination.exists())
CheckDestination ==
    /\ pc = "start"
    /\ \E there \in BOOLEAN : pc' = IF there THEN "parse" ELSE "panic"
    /\ UNCHANGED <<name, no_interaction, fs, dest, app_name, files, final_name,
                   out_created, idx, opened, combine_time, prompts, sevenzip, cls,
                   answers, nexe, choice, err>>

ParseName ==
    /\ pc = "parse"
    /\ app_name' = find_app_name(fs, name)
    /\ pc' = IF IsSome(app_name') THEN "glob" ELSE "exit1"
    /\ UNCHANGED <<name, no_interaction, fs, dest, files, final_name,
                   out_created, idx, opened, combine_time, prompts, sevenzip, cls,
                   answers, nexe, choice, err>>

GlobFiles ==
    /\ pc = "glob"
    /\ files' = GlobFilesResult(fs, name, Unwrap(app_name))
    /\ pc' = IF files' = <<>> THEN "exit1" ELSE "final_name"
    /\ UNCHANGED <<name, no_interaction, fs, dest, app_name, final_name,
                   out_created, idx, opened, combine_time, prompts, sevenzip, cls,
                   answers, nexe, choice, err>>

\* mutant of SingleFile: the -y flag is not looked at
SingleFile_always_asks ==
    /\ pc = "final_name"
    /\ Len(files) = 1
    /\ prompts' = Append(prompts, "single")
    /\ \E answer \in Answers :
          /\ answers' = Append(answers, answer)
          /\ IF Accepts(answer)
             THEN final_name' = Some(files[1]) /\ pc' = "dest"
             ELSE final_name' = final_name /\ pc' = "exit1"
    /\ UNCHANGED <<name, no_interaction, fs, dest, app_name, files,
                   out_created, idx, opened, combine_time, sevenzip, cls,
                   nexe, choice, err>>

\* files.len() == 1: extract the only file, after asking unless -y
SingleFile ==
    /\ pc = "final_name"
    /\ Len(files) = 1
    /\ IF no_interaction
       THEN /\ final_name' = Some(files[1])
            /\ pc' = "dest"
            /\ UNCHANGED <<prompts, answers>>
       ELSE /\ prompts' = Append(prompts, "single")
            /\ \E answer \in Answers :
                  /\ answers' = Append(answers, answer)
                  /\ IF Accepts(answer)
                     THEN final_name' = Some(files[1]) /\ pc' = "dest"
                     ELSE final_name' = final_name /\ pc' = "exit1"
    /\ UNCHANGED <<name, no_interaction, fs, dest, app_name, files,
                   out_created, idx, opened, combine_time, sevenzip, cls,
                   nexe, choice, err>>

\* several files: the output name is app_name.final_ext
DeriveOutputName ==
    /\ pc = "final_name"
    /\ Len(files) # 1
    /\ final_name' = OutputName(Unwrap(app_name), files)
    /\ pc' = IF IsSome(final_name') THEN "create" ELSE "panic"
    /\ UNCHANGED <<name, no_interaction, fs, dest, app_name, files,
                   out_created, idx, opened, combine_time, prompts, sevenzip, cls,
                   answers, nexe, choice, err>>

\* mutant of expect_Err: the error is dropped and the run goes on
expect_Err_ignored == "dest"

\* Result::expect on an Err value: panic!, the process ends
expect_Err == "panic"

\* mutant of create_new: File::create, which truncates an existing file
create_truncate(fsys, path) ==
    [kind |-> "Ok", fs |-> (path :> [kind |-> "file", bytes |-> <<>>]) @@ fsys]

\* File::create_new: fails on an existing name, else leaves an empty file
create_new(fsys, path) ==
    IF path \in DOMAIN fsys
    THEN [kind |-> "AlreadyExists", fs |-> fsys]
    ELSE [kind |-> "Ok", fs |-> (path :> [kind |-> "file", bytes |-> <<>>]) @@ fsys]

CreateOutput ==
    /\ pc = "create"
    /\ LET r == create_new(fs, Unwrap(final_name))
       IN \/ /\ r.kind = "Ok"
             /\ fs' = r.fs
             /\ out_created' = TRUE
             /\ pc' = "sort"
             /\ UNCHANGED err
          \/ /\ r.kind = "AlreadyExists"
             /\ pc' = "exists"
             /\ UNCHANGED <<fs, out_created, err>>
          \/ \* any other io::Error (permissions, disk): panic!
             /\ r.kind = "Ok"
             /\ err' = Some("create")
             /\ pc' = expect_Err
             /\ UNCHANGED <<fs, out_created>>
    /\ UNCHANGED <<name, no_interaction, dest, app_name, files, final_name,
                   idx, opened, combine_time, prompts, sevenzip, cls,
                   answers, nexe, choice>>

\* if files.len() > 10 { files.sort_by(compare_numeric_extension) }
SortFiles ==
    /\ pc = "sort"
    /\ IF Len(files) > SortThreshold
          /\ \E i \in 1..Len(files) : ~IsSome(numeric_extension(files[i]))
       THEN pc' = "panic" /\ UNCHANGED files
       ELSE pc' = "copy" /\ files' = SortFilesResult(files)
    /\ UNCHANGED <<name, no_interaction, fs, dest, app_name, final_name,
                   out_created, idx, opened, combine_time, prompts, sevenzip, cls,
                   answers, nexe, choice, err>>

\* io::copy appends the bytes read from the part to the output file
AppendBytes(fsys, out, bytes) ==
    [fsys EXCEPT ![out].bytes = @ \o bytes]

\* mutant of CopyResult: each part is written over the output, not appended
CopyResult_overwrite(fsys, out, part) ==
    [fsys EXCEPT ![out].bytes = Bytes(fsys, part)]

\* what one pass of the copy loop appends when open and copy succeed
CopyResult(fsys, out, part) == AppendBytes(fsys, out, Bytes(fsys, part))

\* one pass of the loop: File::open(file).expect(..), io::copy(..).expect(..)
CopyPart ==
    /\ pc = "copy"
    /\ idx < Len(files)
    /\ LET part == files[idx + 1]
           out == Unwrap(final_name)
       IN /\ opened' = Append(opened, part)
          /\ \/ /\ fs[part].kind = "file"
                /\ fs' = CopyResult(fs, out, part)
                /\ idx' = idx + 1
                /\ pc' = "copy"
                /\ UNCHANGED err
             \/ \* the part cannot be opened
                /\ err' = Some("open")
                /\ pc' = expect_Err
                /\ UNCHANGED <<fs, idx>>
             \/ \* the copy fails after k bytes went through
                /\ \E k \in 0..Len(Bytes(fs, part)) :
                      fs' = AppendBytes(fs, out, SubSeq(Bytes(fs, part), 1, k))
                /\ err' = Some("copy")
                /\ pc' = expect_Err
                /\ UNCHANGED idx
    /\ UNCHANGED <<name, no_interaction, dest, app_name, files, final_name,
                   out_created, combine_time, prompts, sevenzip, cls,
                   answers, nexe, choice>>

\* combine_time = combine_start.elapsed()
FinishCombine ==
    /\ pc = "copy"
    /\ idx = Len(files)
    /\ combine_time' = Some("elapsed")
    /\ pc' = "dest"
    /\ UNCHANGED <<name, no_interaction, fs, dest, app_name, files, final_name,
                   out_created, idx, opened, prompts, sevenzip, cls,
                   answers, nexe, choice, err>>

\* mutant of ReuseExisting: the -y flag is not looked at
ReuseExisting_always_asks ==
    /\ pc = "exists"
    /\ prompts' = Append(prompts, "reuse")
    /\ \E answer \in Answers :
          /\ answers' = Append(answers, answer)
          /\ pc' = IF Accepts(answer) THEN "dest" ELSE "exit1"
    /\ UNCHANGED <<name, no_interaction, fs, dest, app_name, files, final_name,
                   out_created, idx, opened, combine_time, sevenzip, cls,
                   nexe, choice, err>>

\* ErrorKind::AlreadyExists: extract the file that is there, after asking unless -y
ReuseExisting ==
    /\ pc = "exists"
    /\ IF no_interaction
       THEN pc' = "dest" /\ UNCHANGED <<prompts, answers>>
       ELSE /\ prompts' = Append(prompts, "reuse")
            /\ \E answer \in Answers :
                  /\ answers' = Append(answers, answer)
                  /\ pc' = IF Accepts(answer) THEN "dest" ELSE "exit1"
    /\ UNCHANGED <<name, no_interaction, fs, dest, app_name, files, final_name,
                   out_created, idx, opened, combine_time, sevenzip, cls,
                   nexe, choice, err>>

\* how fs::create_dir(destination) may find the destination
DestStates == {"absent", "empty", "nonempty", "unreadable", "error"}

\* mutant of create_destination: the answer about a non-empty destination
\* is not looked at
create_destination_whatever_answer ==
    \E st \in DestStates :
       \/ /\ st = "absent"
          /\ dest' = "created"
          /\ pc' = "extract"
          /\ UNCHANGED <<prompts, answers>>
       \/ /\ st = "unreadable"
          /\ dest' = st
          /\ pc' = "panic"
          /\ UNCHANGED <<prompts, answers>>
       \/ /\ st \in {"empty", "nonempty"}
          /\ dest' = st
          /\ IF no_interaction \/ st = "empty"
             THEN pc' = "extract" /\ UNCHANGED <<prompts, answers>>
             ELSE /\ prompts' = Append(prompts, "dest")
                  /\ \E answer \in Answers :
                        /\ answers' = Append(answers, answer)
                        /\ pc' = "extract"
       \/ /\ st = "error"
          /\ dest' = st
          /\ pc' = "panic"
          /\ UNCHANGED <<prompts, answers>>

create_destination ==
    \E st \in DestStates :
       \/ /\ st = "absent"
          /\ dest' = "created"
          /\ pc' = "extract"
          /\ UNCHANGED <<prompts, answers>>
       \/ /\ st = "unreadable"
          /\ dest' = st
          /\ pc' = "panic"
          /\ UNCHANGED <<prompts, answers>>
       \/ /\ st \in {"empty", "nonempty"}
          /\ dest' = st
          /\ IF no_interaction \/ st = "empty"
             THEN pc' = "extract" /\ UNCHANGED <<prompts, answers>>
             ELSE /\ prompts' = Append(prompts, "dest")
                  /\ \E answer \in Answers :
                        /\ answers' = Append(answers, answer)
                        /\ pc' = IF Accepts(answer) THEN "extract" ELSE "exit1"
       \/ /\ st = "error"
          /\ dest' = st
          /\ pc' = "panic"
          /\ UNCHANGED <<prompts, answers>>

CreateDestination ==
    /\ pc = "dest"
    /\ create_destination
    /\ UNCHANGED <<name, no_interaction, fs, app_name, files, final_name,
                   out_created, idx, opened, combine_time, sevenzip, cls,
                   nexe, choice, err>>

\* exit codes of 7z; 0 and 1 let the run go on
SevenZipCodes == {0, 1, 2, 7, 8, 255, 3}

\* Command::new("7z").args(["x", -o.., final_name]).status()
RunSevenZip ==
    /\ pc = "extract"
    /\ sevenzip' = Some([arg |-> Unwrap(final_name),
                         bytes |-> IF Unwrap(final_name) \in DOMAIN fs
                                   THEN Some(Bytes(fs, Unwrap(final_name)))
                                   ELSE None])
    /\ \E code \in SevenZipCodes : pc' = IF code \in {0, 1} THEN "post" ELSE "panic"
    /\ UNCHANGED <<name, no_interaction, fs, dest, app_name, files, final_name,
                   out_created, idx, opened, combine_time, prompts, cls,
                   answers, nexe, choice, err>>

MaxExes == 2        \* most executables found in the destination

\* what the user types at "Choice: ", already trimmed
ChoiceInputs ==
    {Decimal(v) : v \in 0..(MaxExes + 1)}
        \cup {<<>>, <<"x">>, <<"-", "1">>, <<"+", "1">>,
              <<"9", "9", "9", "9", "9", "9", "9", "9", "9", "9">>}

\* str::parse::<usize>: as for u32 with more room; a value that only fits the
\* wider type is above every max, and is asked again like a parse error
parse_usize(s) ==
    LET r == parse_u32(s)
    IN IF IsSome(r) /\ Unwrap(r)[1] = 0 THEN Some(Unwrap(r)[2]) ELSE None

\* one round of prompt_user_for_usize(max): None when it asks again
prompt_user_for_usize(max, input) ==
    LET result == parse_usize(input)
    IN IF ~IsSome(result) THEN None
       ELSE IF Unwrap(result) > max THEN None
       ELSE result

\* executables.get(choice - 1): usize has no -1, and no index is that large
get_executable(n, c) ==
    IF c = 0 THEN None
    ELSE IF c - 1 < n THEN Some(c - 1) ELSE None

\* flattening, then the search for the executable the shortcut points to
PostExtract ==
    /\ pc = "post"
    /\ \/ \* --no-shortcut, or not on windows
          /\ pc' = "exit0"
          /\ UNCHANGED <<nexe, prompts, answers>>
       \/ \* executables.is_empty()
          /\ nexe' = 0
          /\ IF no_interaction
             THEN pc' = "exit0" /\ UNCHANGED <<prompts, answers>>
             ELSE /\ prompts' = Append(prompts, "give_path")
                  /\ \E answer \in {<<"g">>, <<"s">>} :
                        /\ answers' = Append(answers, answer)
                        /\ pc' = IF to_lowercase(answer) = <<"g">>
                                 THEN "link" ELSE "exit0"
       \/ \* an executable has the name of the app
          /\ nexe' \in 1..MaxExes
          /\ IF no_interaction
             THEN pc' = "link" /\ UNCHANGED <<prompts, answers>>
             ELSE /\ prompts' = Append(prompts, "correct")
                  /\ \E answer \in Answers :
                        /\ answers' = Append(answers, answer)
                        /\ pc' = IF Accepts(answer) THEN "link"
                                 ELSE IF nexe' = 1 THEN "exit0"
                                 ELSE "choice"
       \/ \* no executable has the name of the app: executables[0]
          /\ nexe' \in 1..MaxExes
          /\ pc' = "link"
          /\ UNCHANGED <<prompts, answers>>
    /\ UNCHANGED <<name, no_interaction, fs, dest, app_name, files, final_name,
                   out_created, idx, opened, combine_time, sevenzip, cls,
                   choice, err>>

\* let choice: usize = prompt_user_for_usize(executables.len())
PromptChoice ==
    /\ pc = "choice"
    /\ \E input \in ChoiceInputs :
          LET result == prompt_user_for_usize(nexe, input)
          IN IF IsSome(result)
             THEN choice' = result /\ pc' = "pick"
             ELSE UNCHANGED <<choice, pc>>
    /\ UNCHANGED <<name, no_interaction, fs, dest, app_name, files, final_name,
                   out_created, idx, opened, combine_time, prompts, sevenzip, cls,
                   answers, nexe, err>>

\* executables.get(choice - 1).expect("should be less than # of executables")
PickExecutable ==
    /\ pc = "pick"
    /\ pc' = IF IsSome(get_executable(nexe, Unwrap(choice))) THEN "link" ELSE "panic"
    /\ UNCHANGED <<name, no_interaction, fs, dest, app_name, files, final_name,
                   out_created, idx, opened, combine_time, prompts, sevenzip, cls,
                   answers, nexe, choice, err>>

\* canonicalize, APPDATA and powershell, each with its expect; then success()
CreateShortcut ==
    /\ pc = "link"
    /\ \E ok \in BOOLEAN : pc' = IF ok THEN "exit0" ELSE "panic"
    /\ UNCHANGED <<name, no_interaction, fs, dest, app_name, files, final_name,
                   out_created, idx, opened, combine_time, prompts, sevenzip, cls,
                   answers, nexe, choice, err>>

Next ==
    \/ CheckDestination
    \/ ParseName
    \/ GlobFiles
    \/ SingleFile
    \/ DeriveOutputName
    \/ CreateOutput
    \/ SortFiles
    \/ CopyPart
    \/ FinishCombine
    \/ ReuseExisting
    \/ CreateDestination
    \/ RunSevenZip
    \/ PostExtract
    \/ PromptChoice
    \/ PickExecutable
    \/ CreateShortcut

Spec == Init /\ [][Next]_vars

-----------------------------------------------------------------------------
(* Runs one after the other in the same working directory *)

MaxRerunParts == 3      \* most parts in the directory of repeated runs

\* a directory no run has written to yet
InitRerun ==
    /\ pc = "start"
    /\ \E sc \in Scenarios :
          /\ sc.n <= MaxRerunParts
          /\ ~sc.pre
          /\ fs = ScenarioFs(sc)
          /\ name \in ScenarioNames(sc)
    /\ no_interaction \in BOOLEAN
    /\ Idle

\* the process has ended; the same command is run again, with or without -y,
\* on the files the earlier run left
Rerun ==
    /\ pc \in {"exit0", "exit1", "panic"}
    /\ pc' = "start"
    /\ no_interaction' \in BOOLEAN
    /\ app_name' = None /\ files' = <<>> /\ final_name' = None
    /\ out_created' = FALSE /\ idx' = 0 /\ opened' = <<>>
    /\ combine_time' = None /\ prompts' = <<>> /\ answers' = <<>>
    /\ sevenzip' = None /\ dest' = "untouched"
    /\ nexe' = 0 /\ choice' = None /\ err' = None
    /\ UNCHANGED <<name, fs, cls>>

NextRerun ==
    \/ Next
    \/ Rerun

SpecRerun == InitRerun /\ [][NextRerun]_vars

-----------------------------------------------------------------------------
(* The classifier and the resolver on their own, over many paths *)

MaxSegs == 3        \* most '.'-separated segments of a generated file name

S_a == <<"a">>
S_7Z == <<"7", "Z">>
S_zIP == <<"z", "I", "P">>
S_001 == <<"0", "0", "1">>
S_plus1 == <<"+", "0", "0", "0", "1">>
S_minus1 == <<"-", "0", "0", "0", "1">>
S_U32Max == <<"4", "2", "9", "4", "9", "6", "7", "2", "9", "5">>
S_U32Over == <<"4", "2", "9", "4", "9", "6", "7", "2", "9", "6">>

SegPool ==
    {S_a, S_7z, S_7Z, S_zIP, S_001, S_plus1, S_minus1,
     S_U32Max, S_U32Over, S_txt}

RECURSIVE SegSeqs(_)
SegSeqs(k) ==
    IF k = 0 THEN {<<>>}
    ELSE {Append(q, g) : q \in SegSeqs(k - 1), g \in SegPool}

FileNames == {Join(q, ".") : q \in UNION {SegSeqs(k) : k \in 1..MaxSegs}}

\* paths without a file name, paths with a directory in front, and file names
\* with an empty stem or an empty extension
OddPaths ==
    {<<>>, <<".", ".">>, <<"/">>, <<".">>, <<"d", "/", ".", ".">>,
     <<"d", "/">> \o S_App \o <<".">> \o S_7z \o <<".">> \o S_001,
     <<".">> \o S_7z, <<".">> \o S_7z \o <<".">> \o S_001,
     S_a \o <<".">>, S_a \o <<".", ".">> \o S_7z, S_a \o <<".">> \o S_7z \o <<".">>,
     <<".", ".">> \o S_001, <<".", ".", ".">> \o S_001, <<".", ".", ".">> \o S_7z}

Paths == FileNames \cup OddPaths

\* the path is missing, is a directory, or is a regular file
InitName ==
    /\ pc = "parse"
    /\ name \in Paths
    /\ \E kind \in {"missing", "dir", "file"} :
          fs = IF kind = "missing" THEN <<>>
               ELSE (name :> [kind |-> kind, bytes |-> <<>>])
    /\ no_interaction = FALSE
    /\ Idle

\* tests.rs: ask the classifier about the path
Classify ==
    /\ cls = None
    /\ cls' = Some([archive |-> is_archive(name), numeric |-> is_numeric(name)])
    /\ UNCHANGED <<pc, name, no_interaction, fs, dest, app_name, files, final_name,
                   out_created, idx, opened, combine_time, prompts, sevenzip,
                   answers, nexe, choice, err>>

NextName ==
    \/ ParseName
    \/ GlobFiles
    \/ Classify

SpecName == InitName /\ [][NextName]_vars

-----------------------------------------------------------------------------
(* Vocabulary of the properties *)

\* find_app_name has run on args.name
Resolved == pc \notin {"start", "parse"}
IsRegularFile == name \in DOMAIN fs /\ fs[name].kind = "file"

\* an archive extension as the specification recognises it: compared lower-cased
Recognised(ext) == to_lowercase(ext) \in ARCHIVE_EXTS

\* the text of a non-negative integer below 2^32: digits, after an optional '+'
StripZeros(s) ==
    IF \A i \in 1..Len(s) : s[i] = "0" THEN <<>>
    ELSE SubSeq(s, MinOf({i \in 1..Len(s) : s[i] # "0"}), Len(s))

IsU32Text(s) ==
    LET body == IF Len(s) >= 2 /\ s[1] = "+" THEN Tail(s) ELSE s
    IN /\ body # <<>>
       /\ \A i \in 1..Len(body) : IsDigit(body[i])
       /\ \/ Len(StripZeros(body)) < Len(S_U32Max)
          \/ /\ Len(StripZeros(body)) = Len(S_U32Max)
             /\ ~StrLess(S_U32Max, StripZeros(body))

\* the '.'-separated segments of args.name's file name
NameSegs == Split(Unwrap(file_name(name)), ".")
\* the file name without its last k segments
NameHead(k) == Join(SubSeq(NameSegs, 1, Len(NameSegs) - k), ".")
LastSeg(k) == NameSegs[Len(NameSegs) - k]

-----------------------------------------------------------------------------
(* Properties of the resolver and the classifier, under SpecName *)

\* C1: for an existing regular file named N.E.D, D a numeric extension and E a
\* recognised archive extension, find_app_name returns exactly N.
C1_StripsNumericThenArchive ==
    (/\ Resolved
     /\ IsRegularFile
     /\ IsSome(file_name(name))
     /\ Len(NameSegs) >= 3
     /\ IsU32Text(LastSeg(0))
     /\ Recognised(LastSeg(1))
     /\ NameHead(2) # <<>>)
    => app_name = Some(NameHead(2))

\* C1, for the archive extensions written exactly as in ARCHIVE_EXTS: the same
\* statement holds of the code.
C1_ExactCase ==
    (/\ Resolved
     /\ IsRegularFile
     /\ IsSome(file_name(name))
     /\ Len(NameSegs) >= 3
     /\ IsU32Text(LastSeg(0))
     /\ LastSeg(1) \in ARCHIVE_EXTS
     /\ NameHead(2) # <<>>)
    => app_name = Some(NameHead(2))

\* C2: for a path that is missing or is a directory, find_app_name returns the
\* path's file name unchanged, whatever dots and extensions it holds.
C2_MissingOrDirUnchanged ==
    (Resolved /\ ~IsRegularFile) => app_name = file_name(name)

\* C2 witness: a directory named like a split-archive part keeps its whole name.
C2_Witness ==
    /\ Resolved
    /\ is_dir(fs, name)
    /\ name = S_a \o <<".">> \o S_7z \o <<".">> \o S_001
    /\ app_name = Some(name)

\* C3 as stated: whatever the path and the file system, the returned name's final
\* extension is neither numeric nor an archive extension.
C3_NoSuffixEver ==
    (Resolved /\ IsSome(app_name))
    => (~is_numeric(Unwrap(app_name)) /\ ~is_archive(Unwrap(app_name)))

\* a file name N, N.D, N.E or N.E.D (D numeric, E in ARCHIVE_EXTS as written)
\* whose N ends in neither a numeric nor an archive extension
CleanName(f) ==
    \E n \in {f} \cup {SubSeq(f, 1, k) : k \in 0..Len(f)} :
       /\ ~is_numeric(n) /\ ~is_archive(n)
       /\ \/ f = n
          \/ \E d \in {SubSeq(f, k, Len(f)) : k \in 1..Len(f)} :
                /\ Positions(d, ".") = {} /\ IsSome(parse_u32(d))
                /\ \/ f = n \o <<".">> \o d
                   \/ \E e \in ARCHIVE_EXTS : f = n \o <<".">> \o e \o <<".">> \o d
          \/ \E e \in ARCHIVE_EXTS : f = n \o <<".">> \o e

\* C3 amended: for an existing regular file whose name is N, N.D, N.E or N.E.D
\* with N ending in neither kind of extension, the returned name's final
\* extension is neither numeric nor one of ARCHIVE_EXTS.
C3_NoSuffixOnCleanFile ==
    (/\ Resolved
     /\ IsRegularFile
     /\ IsSome(file_name(name))
     /\ CleanName(Unwrap(file_name(name))))
    => /\ IsSome(app_name)
       /\ ~is_numeric(Unwrap(app_name))
       /\ ~is_archive(Unwrap(app_name))

\* C3 witness: the file a.7z.001 resolves to a.
C3_Witness ==
    /\ Resolved
    /\ IsRegularFile
    /\ name = S_a \o <<".">> \o S_7z \o <<".">> \o S_001
    /\ app_name = Some(S_a)

\* C8: is_archive is true iff the lower-cased final extension is one of 7z, zip,
\* rar, tgz, and false without an extension.
C8_ArchiveCaseInsensitive ==
    IsSome(cls)
    => (Unwrap(cls).archive
          <=> (IsSome(extension(name)) /\ Recognised(Unwrap(extension(name)))))

\* C9: is_numeric is true iff the final extension is the text of a non-negative
\* integer that fits in 32 bits; false for other text, for larger values and
\* for a missing or empty extension.
C9_NumericIffU32 ==
    IsSome(cls)
    => (Unwrap(cls).numeric
          <=> (IsSome(extension(name)) /\ IsU32Text(Unwrap(extension(name)))))

\* C9 witness: a.4294967295 is numeric, the largest value that is.
C9_Witness ==
    /\ IsSome(cls)
    /\ name = S_a \o <<".">> \o S_U32Max
    /\ Unwrap(cls).numeric

-----------------------------------------------------------------------------
(* Properties of a run, under Spec *)

\* the numeric suffix of a candidate that has one
SuffixOf(path) == Unwrap(parse_u32(Unwrap(extension(path))))
AllNumeric(fl) == \A i \in 1..Len(fl) : is_numeric(fl[i])

\* C4: when several candidates, all with a numeric final extension, are
\* combined, the parts are appended in ascending order of the suffix value,
\* whatever their number and the digit widths.
C4_AppendedInNumericOrder ==
    (/\ out_created
     /\ IsSome(combine_time)
     /\ Len(files) > 1
     /\ AllNumeric(files))
    => \A i, j \in 1..Len(opened) :
          i < j => U32Le(SuffixOf(opened[i]), SuffixOf(opened[j]))

\* the bytes of the parts, one after the other in the order of fl
RECURSIVE ConcatBytes(_, _)
ConcatBytes(fsys, fl) ==
    IF fl = <<>> THEN <<>>
    ELSE Bytes(fsys, fl[1]) \o ConcatBytes(fsys, Tail(fl))

\* C5: when create_new and every copy succeeded, the file 7z is run on holds
\* exactly the bytes of every candidate, each once, in the planned order.
C5_OutputIsConcatenation ==
    (IsSome(sevenzip) /\ out_created)
    => /\ Unwrap(sevenzip).arg = Unwrap(final_name)
       /\ opened = files
       /\ Unwrap(sevenzip).bytes = Some(ConcatBytes(fs, files))

\* C5 witness: 7z runs on a non-empty file combined from several parts.
C5_Witness ==
    /\ IsSome(sevenzip)
    /\ out_created
    /\ Len(files) >= 2
    /\ Unwrap(sevenzip).bytes = Some(ConcatBytes(fs, files))
    /\ Len(ConcatBytes(fs, files)) >= 3

\* C6: a file that already has the planned output name keeps its bytes through
\* the whole combine step, whether it is reused under -y, reused at the prompt
\* or declined.
C6_ExistingOutputUntouched ==
    [][(/\ pc \in {"create", "exists", "sort", "copy"}
        /\ ~out_created
        /\ Unwrap(final_name) \in DOMAIN fs)
       => (/\ Unwrap(final_name) \in DOMAIN fs'
           /\ fs'[Unwrap(final_name)] = fs[Unwrap(final_name)])]_vars

\* C6 witness: the user confirmed the reuse and the old file is as it was.
C6_Witness ==
    /\ pc = "dest"
    /\ ~out_created
    /\ Len(files) > 1
    /\ prompts = <<"reuse">>
    /\ Unwrap(final_name) \in DOMAIN fs
    /\ Bytes(fs, Unwrap(final_name)) = StaleBytes

\* the extensions E for which file name f is app.E.D with D numeric and E not
CandidateExts(app, f) ==
    IF ~IsPrefix(app \o <<".">>, f) THEN {}
    ELSE LET segs == Split(SubSeq(f, Len(app) + 2, Len(f)), ".")
         IN IF Len(segs) = 2 /\ ~IsU32Text(segs[1]) /\ IsU32Text(segs[2])
            THEN {segs[1]} ELSE {}

\* C7: when the candidates are N.E.001, N.E.002, ... for the canonical name N
\* and a non-numeric extension E, the output name is N.E.
C7_OutputNameIsAppDotExt ==
    (/\ IsSome(final_name)
     /\ Len(files) > 1)
    => \A e \in CandidateExts(Unwrap(app_name), Unwrap(file_name(files[1]))) :
          (\A i \in 1..Len(files) :
              e \in CandidateExts(Unwrap(app_name), Unwrap(file_name(files[i]))))
          => final_name = Some(Unwrap(app_name) \o <<".">> \o e)

\* C10: with several candidates and -y, when the output name already exists the
\* run asks nothing, opens no part, takes no combine time and goes on to
\* extract the file that is there.
C10_ReuseUnderNoInteraction ==
    /\ [][(pc = "exists" /\ no_interaction)
          => (/\ pc' = "dest"
              /\ prompts' = prompts
              /\ fs' = fs)]_vars
    /\ [](( /\ no_interaction
            /\ Len(files) > 1
            /\ ~out_created
            /\ pc \in {"exists", "dest", "extract", "post", "link", "exit0"})
          => /\ prompts = <<>>
             /\ opened = <<>>
             /\ combine_time = None
             /\ IsSome(sevenzip) => Unwrap(sevenzip).arg = Unwrap(final_name))

\* C10 witness: under -y, 7z ran on the file an earlier run had left.
C10_Witness ==
    /\ no_interaction
    /\ Len(files) > 1
    /\ ~out_created
    /\ IsSome(sevenzip)
    /\ Unwrap(sevenzip).bytes = Some(StaleBytes)
    /\ opened = <<>>

\* C11: with exactly one candidate and -y, the final name is the path of that
\* candidate, nothing is asked, no output file is created, no part is copied
\* and the combine time stays zero.
C11_SingleFileNoInteraction ==
    /\ [](( /\ no_interaction
            /\ Len(files) = 1
            /\ pc \notin {"start", "parse", "glob", "final_name"})
          => /\ final_name = Some(files[1])
             /\ prompts = <<>>
             /\ ~out_created
             /\ opened = <<>>
             /\ idx = 0
             /\ combine_time = None
             /\ IsSome(sevenzip) => Unwrap(sevenzip).arg = files[1])
    /\ [][(no_interaction /\ Len(files) = 1) => (fs' = fs)]_vars

\* C11 witness: under -y, 7z ran on the only candidate.
C11_Witness ==
    /\ no_interaction
    /\ Len(files) = 1
    /\ IsSome(sevenzip)
    /\ Unwrap(sevenzip).arg = files[1]
    /\ pc = "exit0"

\* the questions whose refusal ends the run
Confirmations == {"single", "reuse", "dest"}

\* C12: when the user declines the single-file, the reuse or the non-empty
\* destination question, or no candidate matches, the run ends with exit code
\* 1 and 7z has not run and never runs; with no candidate, no file and no
\* directory was created.
C12_DeclineOrNoCandidateExitsOne ==
    /\ [](\A i \in 1..Len(prompts) :
             (prompts[i] \in Confirmations /\ ~Accepts(answers[i]))
             => (pc = "exit1" /\ sevenzip = None))
    /\ []((pc \notin {"start", "parse", "glob"} /\ IsSome(app_name) /\ files = <<>>)
          => /\ pc = "exit1"
             /\ sevenzip = None
             /\ ~out_created
             /\ dest = "untouched")
    /\ [][(pc \in {"start", "parse", "glob"}) => (fs' = fs)]_vars
    /\ [][pc # "exit1"]_vars

\* C12 witness: the parts were combined, then the user refused the non-empty
\* destination.
C12_Witness ==
    /\ pc = "exit1"
    /\ out_created
    /\ prompts # <<>>
    /\ prompts[Len(prompts)] = "dest"
    /\ ~Accepts(answers[Len(answers)])
    /\ sevenzip = None

\* C13: prompt_user_for_usize(max) only ever returns an integer from 1 to max,
\* so that choice - 1 is always an index of the list of executables.
C13_ChoiceIsValidIndex ==
    IsSome(choice)
    => /\ Unwrap(choice) \in 1..nexe
       /\ IsSome(get_executable(nexe, Unwrap(choice)))

\* C14: find_app_name returns None only for a path without a file name, and
\* Some name for every path with one, whatever the file system holds; on None
\* the run ends with exit code 1 before it has listed or created anything.
C14_NoneOnlyWithoutFileName ==
    Resolved
    => /\ (app_name = None) <=> (file_name(name) = None)
       /\ (app_name = None)
          => /\ pc = "exit1"
             /\ files = <<>>
             /\ final_name = None
             /\ ~out_created
             /\ dest = "untouched"
             /\ sevenzip = None

\* C14 witness: the path .. has no file name and the run ended with exit code 1.
C14_Witness ==
    /\ name = <<".", ".">>
    /\ app_name = None
    /\ pc = "exit1"

\* the list is in ascending order of the u32 value of the final extension
SortedBySuffix(fl) ==
    \A i, j \in 1..Len(fl) : i < j => U32Le(SuffixOf(fl[i]), SuffixOf(fl[j]))

\* both lists hold the same paths, each once
SamePaths(fl, gl) ==
    /\ Len(fl) = Len(gl)
    /\ {fl[i] : i \in 1..Len(fl)} = {gl[i] : i \in 1..Len(gl)}

\* C15: the candidate list is put in a new order exactly when it has more
\* than 10 entries. With 10 or fewer the parts are combined in the order glob
\* gave; with more, in ascending order of the u32 value of the final extension.
C15_ResortedOnlyAboveTen ==
    /\ [][(pc = "sort" /\ Len(files) <= 10)
          => (files' = files /\ pc' = "copy")]_vars
    /\ [][(pc = "sort" /\ Len(files) > 10 /\ pc' = "copy")
          => (SortedBySuffix(files') /\ SamePaths(files', files))]_vars
    /\ [][(pc \notin {"glob", "sort"}) => (files' = files)]_vars
    /\ [](\A i \in 1..Len(opened) : opened[i] = files[i])

\* C15 witness: eleven parts App.7z.1 .. App.7z.11, which glob lists as
\* 1, 10, 11, 2, .., were combined with App.7z.2 in the second place.
C15_Witness ==
    /\ pc = "dest"
    /\ out_created
    /\ Len(files) > 10
    /\ opened = files
    /\ Len(Unwrap(extension(files[2]))) = 1
    /\ SortedBySuffix(files)

\* the candidate has no final extension that is the text of a u32
LacksNumericSuffix(path) ==
    ~(IsSome(extension(path)) /\ IsU32Text(Unwrap(extension(path))))

\* every '.'-separated segment of the file name after the first is numeric
NoOutputExtension(path) ==
    LET segs == Split(Unwrap(file_name(path)), ".")
    IN \A i \in 2..Len(segs) : IsU32Text(segs[i])

\* C16: a candidate without a numeric final extension among more than 10
\* candidates that are to be sorted, and a first candidate whose file name has
\* no non-numeric segment after the first, each end the run by panic: 7z is
\* not run, and in the second case no output file has been created.
C16_AmbiguousInputsAbort ==
    /\ [][(/\ pc = "sort"
           /\ Len(files) > 10
           /\ \E i \in 1..Len(files) : LacksNumericSuffix(files[i]))
          => (pc' = "panic" /\ fs' = fs /\ sevenzip' = None)]_vars
    /\ [][(/\ pc = "final_name"
           /\ Len(files) # 1
           /\ NoOutputExtension(files[1]))
          => (/\ pc' = "panic"
              /\ ~out_created'
              /\ fs' = fs
              /\ final_name' = None
              /\ sevenzip' = None)]_vars
    /\ [][pc # "panic"]_vars

\* C16 witness: the run stopped in the sort of more than 10 candidates, one
\* of them without a numeric final extension.
C16_Witness ==
    /\ pc = "panic"
    /\ out_created
    /\ err = None
    /\ opened = <<>>
    /\ Len(files) > 10
    /\ \E i \in 1..Len(files) : LacksNumericSuffix(files[i])

\* the run stopped for want of an output extension, before create_new
C16_WitnessNoExtension ==
    /\ pc = "panic"
    /\ Len(files) > 1
    /\ NoOutputExtension(files[1])
    /\ final_name = None
    /\ ~out_created

\* C17: when the output file cannot be created for a reason other than
\* AlreadyExists, or a part cannot be opened or copied, the run stops there:
\* no later part is copied, the destination is not created, 7z is not run,
\* and the error is neither retried nor taken for an existing output.
C17_CombineFailureAborts ==
    /\ [](IsSome(err)
          => /\ pc = "panic"
             /\ dest = "untouched"
             /\ sevenzip = None
             /\ combine_time = None
             /\ prompts = <<>>
             /\ (err = Some("create")) => (~out_created /\ opened = <<>>)
             /\ (err # Some("create")) => (out_created /\ Len(opened) = idx + 1))
    /\ [][IsSome(err') => (pc \in {"create", "copy"} /\ pc' = "panic")]_vars
    /\ [][pc = "panic" => FALSE]_vars

\* C17 witness: the copy of the second of three or more parts failed, and the
\* run stopped with the later parts unopened.
C17_Witness ==
    /\ pc = "panic"
    /\ err = Some("copy")
    /\ idx = 1
    /\ Len(opened) = 2
    /\ Len(files) >= 3
    /\ dest = "untouched"
    /\ sevenzip = None

\* the candidates other than the output file itself
RECURSIVE PartsOf(_, _)
PartsOf(fl, out) ==
    IF fl = <<>> THEN <<>>
    ELSE IF fl[1] = out THEN PartsOf(Tail(fl), out)
    ELSE <<fl[1]>> \o PartsOf(Tail(fl), out)

\* C18: over any sequence of runs in one directory, when a run takes an
\* output file that is already there and hands it to 7z, the bytes of that
\* file are the bytes of all the parts, one after the other: no run that
\* stopped while combining has left an empty or partial file to be taken up.
C18_ReusedOutputIsComplete ==
    (/\ IsSome(sevenzip)
     /\ Len(files) > 1
     /\ ~out_created)
    => Unwrap(sevenzip).bytes
          = Some(ConcatBytes(fs, PartsOf(files, Unwrap(final_name))))

====
